---- MODULE Spec2Model ----
(***************************************************************************)
(* The reactive dependency-tracking runtime of fuck-vue-core: track and    *)
(* trigger over the bucket, the effect runner with its cleanup and the     *)
(* effect stack, computed and watch.  JavaScript runs one call at a time,  *)
(* so the machine below keeps the chain of pending calls in callStack and  *)
(* every step acts on the innermost call; a top-level statement (a         *)
(* registration, a write, a read) starts only when no call is pending.     *)
(***************************************************************************)
EXTENDS Integers, Sequences, FiniteSets, TLC

VARIABLES
    variant,      \* which source file's trigger is in force
    data,         \* the plain object behind the Proxy
    bucket,       \* target -> (key -> subscriber Set, in insertion order)
    effects,      \* every effectFn created so far: fn, options and deps
    activeEffect, \* the module-level activeEffect (NoEffect when undefined)
    effectStack,  \* the module-level effectStack
    computeds,    \* the closures of computed(): value, isNeedComputed, effectFn
    watchers,     \* the closures of watch(): oldValue, newValue, effectFn, options
    microtasks,   \* jobs handed to Promise.resolve().then, in order
    callStack,    \* the pending JavaScript calls, innermost last
    ret,          \* the value the last finished effectFn returned
    thrown,       \* whether the last top-level statement ended by an exception
    op,           \* the top-level statement under execution (or just finished)
    pre,          \* the state as it was when that statement started
    trace,        \* what has run so far, in order
    history       \* the top-level statements so far, in order

vars == <<variant, data, bucket, effects, activeEffect, effectStack, computeds,
          watchers, microtasks, callStack, ret, thrown, op, pre, trace, history>>

-----------------------------------------------------------------------------
(* Bounds *)

MaxOps == 3
MaxThrowOps == 3
MaxComputedOps == 5
MaxWatchOps == 4
MaxOptionOps == 4
MaxWriteOps == 3
MaxGuardOps == 3
MaxLiveOps == 3
MaxTrace == 60
MaxVal == 1
MaxObjects == 2
MaxFreshOps == 4
MaxCallbackOps == 3

-----------------------------------------------------------------------------
(* Values and names *)

Keys == {"showNameFirst", "name", "age"}
Values == 0 .. MaxVal
Undefined == -1
NoEffect == 0
DataTarget == 0

\* "watch":  src/vue3/响应式系统/5. watch的实现/index.js (and, without options,
\*           3. 解决副作用函数嵌套问题/index.js)
\* "effect": src/vue3/effect/index.js
\* "live":   src/unnamed/part_001

\* a trigger that walks the live Set whatever the file
TakesNoSnapshot(v) == FALSE

\* if (effectFn !== activeEffect): trigger skips the effect that is running
SkipsActive(v) == v \in {"effect", "live"}

\* const newSetArr = new Set(deps): forEach walks a copy, not the live Set
TakesSnapshot(v) == v \in {"watch", "effect"}

-----------------------------------------------------------------------------
(* The business functions handed to effect(), as instruction lists.  The    *)
(* spec's obj.a, obj.b are name and age; cond and obj.c are showNameFirst.  *)

Get(k) == [op |-> "get", key |-> k, alt |-> k]
Add(k) == [op |-> "add", key |-> k, alt |-> k]
Sel(k1, k2) == [op |-> "sel", key |-> k1, alt |-> k2]
Reg(f) == [op |-> "effect", fn |-> f]
Val(c) == [op |-> "value", c |-> c]
Throw(v) == [op |-> "throw", when |-> v]
Toggle(k) == [op |-> "toggle", key |-> k, val |-> 0]
PutIf(k, v) == [op |-> "putif", key |-> k, val |-> v]

Body(f) ==
    CASE f = "logName" -> <<Get("name")>>
      [] f = "logNameTwice" -> <<Get("name"), Get("name")>>
      [] f = "logSum" -> <<Get("name"), Add("age")>>
      [] f = "branch" -> <<Get("showNameFirst"), Sel("name", "age")>>
      [] f = "outer" -> <<Get("name"), Reg("inner"), Get("showNameFirst")>>
      [] f = "inner" -> <<Get("age")>>
      [] f = "parent" -> <<Get("age"), Reg("inner")>>
      [] f = "mayThrow" -> <<Get("name"), Throw(1)>>
      [] f = "logComputed" -> <<Val(1)>>
      [] f = "logNameAndComputed" -> <<Get("name"), Val(1)>>
      [] f = "getName" -> <<Get("name")>>
      [] f = "setName" -> <<Get("showNameFirst"), PutIf("name", 1)>>
      [] f = "bump" -> <<Get("age"), Toggle("age")>>
      [] f = "flip" -> <<Get("showNameFirst"), PutIf("showNameFirst", 0),
                         Sel("age", "name")>>
      [] f = "relay" -> <<Get("showNameFirst"), PutIf("name", 1),
                          Sel("age", "name")>>
      [] f = "reset" -> <<Get("name"), PutIf("showNameFirst", 0)>>

-----------------------------------------------------------------------------
(* The bucket: WeakMap<target, Map<key, Set<effectFn>>> *)

EmptyMap == [x \in {} |-> <<>>]

HasDeps(b, t, k) == t \in DOMAIN b /\ k \in DOMAIN b[t]

DepsOf(b, t, k) == IF HasDeps(b, t, k) THEN b[t][k] ELSE <<>>

SetDeps(b, t, k, s) ==
    LET m == IF t \in DOMAIN b THEN b[t] ELSE EmptyMap
        m2 == [x \in (DOMAIN m) \cup {k} |-> IF x = k THEN s ELSE m[x]]
    IN  [x \in (DOMAIN b) \cup {t} |-> IF x = t THEN m2 ELSE b[x]]

InSeq(s, x) == \E i \in 1 .. Len(s) : s[i] = x

\* an Array's push in place of the Set's add: a present member is added again
ArrayPush(s, x) == Append(s, x)

\* Set.prototype.add: a new member goes last, a present one stays where it is
SetAdd(s, x) == IF InSeq(s, x) THEN s ELSE Append(s, x)

\* Set.prototype.delete
SetDelete(s, x) == SelectSeq(s, LAMBDA y : y # x)

IndexOf(s, x) == CHOOSE i \in 1 .. Len(s) : s[i] = x

\* a track without the early return on !activeEffect
trackAlways(s, ae, t, k) ==
    [s EXCEPT
        !.bucket = SetDeps(@, t, k, SetAdd(DepsOf(@, t, k), ae)),
        !.effects = [i \in 1 .. Len(@) |->
                        IF i = ae THEN [@[i] EXCEPT !.deps = Append(@, <<t, k>>)]
                        ELSE @[i]]]

\* a track that leaves out activeEffect.deps.push(deps)
trackSetOnly(s, ae, t, k) ==
    IF ae = NoEffect
    THEN s
    ELSE [s EXCEPT !.bucket = SetDeps(@, t, k, SetAdd(DepsOf(@, t, k), ae))]

\* track(target, key), on the triple [bucket, effects, stack]
track(s, ae, t, k) ==
    IF ae = NoEffect
    THEN s
    ELSE [s EXCEPT
            !.bucket = SetDeps(@, t, k, SetAdd(DepsOf(@, t, k), ae)),
            !.effects = [@ EXCEPT ![ae].deps = Append(@, <<t, k>>)]]

\* a forEach in progress over the live Set of (t, k) that has passed e: the
\* entries after e move up when e is deleted, and so does the place reached
PassedBy(b, frame, e) ==
    /\ frame.kind = "trigger"
    /\ InSeq(DepsOf(b, frame.target, frame.key), e)
    /\ IndexOf(DepsOf(b, frame.target, frame.key), e) <= frame.pos

\* a cleanup that empties effectFn.deps and deletes from no Set
cleanupDepsOnly(s, e) == [s EXCEPT !.effects = [@ EXCEPT ![e].deps = <<>>]]

\* cleanup(effectFn), on the triple [bucket, effects, stack]
cleanup(s, e) ==
    LET mine == {s.effects[e].deps[i] : i \in 1 .. Len(s.effects[e].deps)}
    IN  [bucket |-> [t \in DOMAIN s.bucket |->
                        [k \in DOMAIN s.bucket[t] |->
                            IF <<t, k>> \in mine
                            THEN SetDelete(s.bucket[t][k], e)
                            ELSE s.bucket[t][k]]],
         effects |-> [s.effects EXCEPT ![e].deps = <<>>],
         stack |-> [i \in 1 .. Len(s.stack) |->
                        IF /\ PassedBy(s.bucket, s.stack[i], e)
                           /\ <<s.stack[i].target, s.stack[i].key>> \in mine
                        THEN [s.stack[i] EXCEPT !.pos = @ - 1]
                        ELSE s.stack[i]]]

-----------------------------------------------------------------------------
(* Frames of callStack *)

\* fn() called by effectFn e: pc is the next instruction, acc the value held,
\* reads the (target, key) pairs fn has read so far
FnFrame(e) == [kind |-> "fn", e |-> e, pc |-> 1, acc |-> Undefined, reads |-> {}]

\* get value() of computed c, waiting for effectFn() to return
ValueFrame(c) == [kind |-> "value", c |-> c]

\* job() of watcher w, waiting for effectFn() to return
JobFrame(w) == [kind |-> "job", w |-> w]

\* watch() of watcher w, waiting for oldValue = effectFn() to return
WatchFrame(w) == [kind |-> "watch", w |-> w]

\* a forEach of trigger: over the copy newSetArr (todo: the members still to
\* visit), or over the live Set (pos: how many of its entries are passed)
TriggerFrame(v, t, k, deps) ==
    [kind |-> "trigger", target |-> t, key |-> k,
     todo |-> IF TakesSnapshot(v) THEN deps ELSE <<>>, pos |-> 0]

\* the members forEach has still to visit
Pending(v, b, frame) ==
    IF TakesSnapshot(v)
    THEN frame.todo
    ELSE SubSeq(DepsOf(b, frame.target, frame.key), frame.pos + 1,
                Len(DepsOf(b, frame.target, frame.key)))

\* forEach moves on to the next member
Advance(v, frame) ==
    IF TakesSnapshot(v)
    THEN [frame EXCEPT !.todo = Tail(@)]
    ELSE [frame EXCEPT !.pos = @ + 1]

Top == callStack[Len(callStack)]
Below == SubSeq(callStack, 1, Len(callStack) - 1)
Running == callStack # <<>>

\* an entry of trace: what happened, to which effectFn (or computed, watcher,
\* target), and two details: for a run the caller of effectFn, for a
\* callback its two arguments, for a trigger the key, for a return the
\* value returned and the (target, key) pairs read
Event(name, id, x, y) == <<name, id, x, y>>

\* trace is a record kept of the run, not a part of the program: it stops
\* growing at MaxTrace entries, so that a program that goes round for ever
\* comes back to a state it was in
Log(tr, ev) == IF Len(tr) < MaxTrace THEN Append(tr, ev) ELSE tr

\* a top-level statement, as op and history record it
Op(name, key, val, fn) == [name |-> name, key |-> key, val |-> val, fn |-> fn]

\* the dependency store as the caller leaves it: `stack` is the call stack
\* of the caller, `effs` the effects (a new effectFn appended, if any)
State(stack, effs) == [bucket |-> bucket, effects |-> effs, stack |-> stack]

\* the call effectFn() up to and including the call of fn: cleanup, set
\* activeEffect, push; s.stack is the call stack of the caller
CallEffectFn(e, caller, s, tr) ==
    LET c == cleanup(s, e)
    IN  /\ bucket' = c.bucket
        /\ effects' = c.effects
        /\ activeEffect' = e
        /\ effectStack' = Append(effectStack, e)
        /\ callStack' = Append(c.stack, FnFrame(e))
        /\ trace' = Log(tr, Event("run", e, caller, 0))

\* the call trigger(target, key) up to the forEach; `stack` is the call
\* stack of the caller
CallTrigger(t, k, stack, tr) ==
    /\ trace' = Log(tr, Event("trigger", t, k, 0))
    /\ callStack' = IF HasDeps(bucket, t, k)
                    THEN Append(stack, TriggerFrame(variant, t, k, bucket[t][k]))
                    ELSE stack

\* a function that called computed.value or job() gets the result: the fn
\* on top of `stack` goes on with it (nothing to do for a top-level read)
Deliver(stack, v) ==
    IF stack = <<>>
    THEN stack
    ELSE Append(SubSeq(stack, 1, Len(stack) - 1),
                [stack[Len(stack)] EXCEPT !.acc = v, !.pc = @ + 1])

\* the fn on top of `stack` has read key k of target t
Noted(stack, t, k) ==
    IF stack = <<>>
    THEN stack
    ELSE Append(SubSeq(stack, 1, Len(stack) - 1),
                [stack[Len(stack)] EXCEPT !.reads = @ \cup {<<t, k>>}])

\* effectFn.options = options; effectFn.deps = []
NewEffect(f, lazy, sched, id) ==
    [fn |-> f, lazy |-> lazy, scheduler |-> sched, owner |-> id, deps |-> <<>>]

\* a get value() that leaves out track(obj, 'value')
trackValueNot(s, ae, c) == s

\* track(obj, 'value')
trackValue(s, ae, c) == track(s, ae, c, "value")

\* a get value() that calls effectFn() whatever isNeedComputed is
GetValueNoCache(c, stack, tr) ==
    /\ CallEffectFn(computeds[c].effectFn, "value",
                    State(Append(stack, ValueFrame(c)), effects),
                    Append(tr, Event("value", c, 0, 0)))
    /\ UNCHANGED <<computeds, ret>>

\* the read of computed c's value by a caller whose call stack is `stack`
GetValue(c, stack, tr) ==
    IF computeds[c].isNeedComputed
    THEN /\ CallEffectFn(computeds[c].effectFn, "value",
                         State(Append(stack, ValueFrame(c)), effects),
                         Append(tr, Event("value", c, 0, 0)))
         /\ UNCHANGED <<computeds, ret>>
    ELSE LET s == trackValue(State(stack, effects), activeEffect, c)
         IN  /\ bucket' = s.bucket
             /\ effects' = s.effects
             /\ callStack' = Deliver(Noted(s.stack, c, "value"), computeds[c].value)
             /\ ret' = computeds[c].value
             /\ trace' = Append(tr, Event("value", c, 0, 0))
             /\ UNCHANGED <<computeds, activeEffect, effectStack>>

\* the call job() of watcher w by a caller whose call stack is `stack`
CallJob(w, e, stack, effs, tr) ==
    CallEffectFn(e, "job", State(Append(stack, JobFrame(w)), effs), tr)

-----------------------------------------------------------------------------
(* Top-level statements *)

\* the microtasks run when the running script has ended, and all of them
\* before anything else starts
Draining == op.name = "microtask" /\ microtasks # <<>>

Snapshot ==
    [bucket |-> bucket, data |-> data, activeEffect |-> activeEffect,
     effectStack |-> effectStack, nEffects |-> Len(effects),
     computeds |-> computeds, watchers |-> watchers, microtasks |-> microtasks,
     mark |-> Len(trace) + 1]

Begin(o) ==
    /\ ~Running
    /\ ~Draining
    /\ history' = Append(history, o)
    /\ op' = o
    /\ pre' = Snapshot
    /\ thrown' = FALSE

Started == Append(trace, Event("op", Len(history) + 1, 0, 0))

\* a computed a business function reads exists when the function is defined
Defined(f) ==
    \A i \in 1 .. Len(Body(f)) :
        Body(f)[i].op = "value" => Body(f)[i].c <= Len(computeds)

\* effect(fn) / effectRegister(fn): a non-lazy effect without scheduler
effect(f) ==
    /\ Begin(Op("effect", "", 0, f))
    /\ Defined(f)
    /\ CallEffectFn(Len(effects) + 1, "effect",
                    State(<<>>, Append(effects, NewEffect(f, FALSE, "none", 0))),
                    Started)
    /\ UNCHANGED <<variant, data, computeds, watchers, microtasks, ret>>

\* an effect() that calls effectFn whatever options.lazy is
RunsAlways(lazy) == TRUE

\* if (!options.lazy)
RunsAtOnce(lazy) == ~lazy

\* effect(fn, { lazy }): the effectFn is created, run unless lazy, and returned
effectOptions(f, lazy) ==
    /\ Begin(Op("effect", "", IF lazy THEN 1 ELSE 0, f))
    /\ Defined(f)
    /\ IF RunsAtOnce(lazy)
       THEN CallEffectFn(Len(effects) + 1, "effect",
                         State(<<>>, Append(effects, NewEffect(f, lazy, "none", 0))),
                         Started)
       ELSE /\ effects' = Append(effects, NewEffect(f, lazy, "none", 0))
            /\ trace' = Started
            /\ UNCHANGED <<bucket, activeEffect, effectStack, callStack>>
    /\ UNCHANGED <<variant, data, computeds, watchers, microtasks, ret>>

\* effectFn() at top level, on a handle effect() returned
run(e) ==
    /\ Begin(Op("run", "", e, ""))
    /\ effects[e].owner = 0
    /\ CallEffectFn(e, "runner", State(<<>>, effects), Started)
    /\ UNCHANGED <<variant, data, computeds, watchers, microtasks, ret>>

\* _data[k] = v at top level: the Proxy's set trap
set(k, v) ==
    /\ Begin(Op("set", k, v, ""))
    /\ data' = [data EXCEPT ![k] = v]
    /\ CallTrigger(DataTarget, k, <<>>, Started)
    /\ UNCHANGED <<variant, bucket, effects, activeEffect, effectStack,
                   computeds, watchers, microtasks, ret>>

\* _data[k] read at top level: the Proxy's get trap
get(k) ==
    /\ Begin(Op("get", k, 0, ""))
    /\ trace' = Started
    /\ LET s == track(State(<<>>, effects), activeEffect, DataTarget, k)
       IN  /\ bucket' = s.bucket
           /\ effects' = s.effects
    /\ ret' = data[k]
    /\ UNCHANGED <<variant, data, activeEffect, effectStack, computeds,
                   watchers, microtasks, callStack>>

\* computed(getter): a lazy effect whose scheduler is the computed's
computed(g) ==
    /\ Begin(Op("computed", "", 0, g))
    /\ trace' = Started
    /\ effects' = Append(effects, NewEffect(g, TRUE, "computed", Len(computeds) + 1))
    /\ computeds' = Append(computeds, [value |-> Undefined, isNeedComputed |-> TRUE,
                                       effectFn |-> Len(effects) + 1])
    /\ UNCHANGED <<variant, data, bucket, activeEffect, effectStack, watchers,
                   microtasks, callStack, ret>>

\* computed.value read at top level
value(c) ==
    /\ Begin(Op("value", "", c, ""))
    /\ GetValue(c, <<>>, Started)
    /\ UNCHANGED <<variant, data, watchers, microtasks>>

\* watch(source, cb, { immediate, flush }) with a function as source
watch(src, cb, immediate, flush) ==
    /\ Begin(Op("watch", flush, IF immediate THEN 1 ELSE 0, src))
    /\ watchers' = Append(watchers, [oldValue |-> Undefined, newValue |-> Undefined,
                                     effectFn |-> Len(effects) + 1, cb |-> cb,
                                     immediate |-> immediate, flush |-> flush])
    /\ LET w == Len(watchers) + 1
           effs == Append(effects, NewEffect(src, TRUE, "watch", w))
       IN  IF immediate
           THEN CallJob(w, Len(effects) + 1, <<>>, effs, Started)
           ELSE CallEffectFn(Len(effects) + 1, "watch",
                             State(<<WatchFrame(w)>>, effs), Started)
    /\ UNCHANGED <<variant, data, computeds, microtasks, ret>>

\* the next job of Promise.resolve().then(job) runs
RunMicrotask ==
    /\ ~Running
    /\ microtasks # <<>>
    /\ microtasks' = Tail(microtasks)
    /\ op' = Op("microtask", "", Head(microtasks), "")
    /\ pre' = Snapshot
    /\ thrown' = FALSE
    /\ CallJob(Head(microtasks), watchers[Head(microtasks)].effectFn, <<>>, effects,
               Append(trace, Event("microtask", Head(microtasks), 0, 0)))
    /\ UNCHANGED <<variant, data, computeds, watchers, ret, history>>

-----------------------------------------------------------------------------
(* Steps of the innermost pending call *)

Instr == Body(effects[Top.e].fn)[Top.pc]
AtInstr(ops) ==
    /\ Running
    /\ Top.kind = "fn"
    /\ Top.pc <= Len(Body(effects[Top.e].fn))
    /\ Instr.op \in ops

Truthy(v) == v # 0 /\ v # Undefined

\* a read of _data[key] inside fn: the get trap tracks, then returns the value
FnGet ==
    /\ AtInstr({"get", "add", "sel"})
    /\ LET k == IF Instr.op = "sel" /\ ~Truthy(Top.acc) THEN Instr.alt ELSE Instr.key
           s == track(State(callStack, effects), activeEffect, DataTarget, k)
           v == IF Instr.op = "add" THEN Top.acc + data[k] ELSE data[k]
       IN  /\ bucket' = s.bucket
           /\ effects' = s.effects
           /\ callStack' = Deliver(Noted(s.stack, DataTarget, k), v)
    /\ UNCHANGED <<variant, data, activeEffect, effectStack, computeds, watchers,
                   microtasks, ret, thrown, op, pre, trace, history>>

\* _data[key] = v inside fn: the set trap stores the value and calls trigger
FnSet ==
    /\ AtInstr({"toggle", "putif"})
    /\ IF Instr.op = "toggle" \/ Truthy(Top.acc)
       THEN /\ data' = [data EXCEPT ![Instr.key] =
                            IF Instr.op = "putif" THEN Instr.val
                            ELSE IF Truthy(Top.acc) THEN 0 ELSE 1]
            /\ CallTrigger(DataTarget, Instr.key,
                           Append(Below, [Top EXCEPT !.pc = @ + 1]), trace)
       ELSE /\ callStack' = Append(Below, [Top EXCEPT !.pc = @ + 1])
            /\ UNCHANGED <<data, trace>>
    /\ UNCHANGED <<variant, bucket, effects, activeEffect, effectStack, computeds,
                   watchers, microtasks, ret, thrown, op, pre, history>>

\* effect(fn) called inside fn: a new effectFn is created and run at once
FnEffect ==
    /\ AtInstr({"effect"})
    /\ CallEffectFn(Len(effects) + 1, "effect",
                    State(Append(Below, [Top EXCEPT !.pc = @ + 1]),
                          Append(effects, NewEffect(Instr.fn, FALSE, "none", 0))),
                    trace)
    /\ UNCHANGED <<variant, data, computeds, watchers, microtasks, ret, thrown,
                   op, pre, history>>

\* computed.value read inside fn
FnValue ==
    /\ AtInstr({"value"})
    /\ GetValue(Instr.c, callStack, trace)
    /\ UNCHANGED <<variant, data, watchers, microtasks, thrown, op, pre, history>>

\* if (acc === when) throw: nothing catches, every pending call is abandoned
\* and effectStack and activeEffect stay as they are
FnThrow ==
    /\ AtInstr({"throw"})
    /\ IF Top.acc = Instr.when
       THEN /\ callStack' = <<>>
            /\ thrown' = TRUE
            /\ trace' = Append(trace, Event("throw", Top.e, 0, 0))
       ELSE /\ callStack' = Append(Below, [Top EXCEPT !.pc = @ + 1])
            /\ UNCHANGED <<thrown, trace>>
    /\ UNCHANGED <<variant, data, bucket, effects, activeEffect, effectStack,
                   computeds, watchers, microtasks, ret, op, pre, history>>

\* effectStack.pop()
Pop(stack) == SubSeq(stack, 1, Len(stack) - 1)

\* activeEffect = undefined, as the first version of effect() ends
lastOfNone(stack) == NoEffect

\* activeEffect = effectStack[effectStack.length - 1]
lastOf(stack) == IF Len(stack) = 0 THEN NoEffect ELSE stack[Len(stack)]

\* fn has returned: effectStack.pop(), restore activeEffect, return res
FnReturn ==
    /\ Running
    /\ Top.kind = "fn"
    /\ Top.pc > Len(Body(effects[Top.e].fn))
    /\ effectStack' = Pop(effectStack)
    /\ activeEffect' = lastOf(effectStack')
    /\ ret' = Top.acc
    /\ callStack' = Below
    /\ trace' = Log(trace, Event("return", Top.e, Top.acc, Top.reads))
    /\ UNCHANGED <<variant, data, bucket, effects, computeds, watchers,
                   microtasks, thrown, op, pre, history>>

\* get value(): value = effectFn() has returned; isNeedComputed = false,
\* track(obj, 'value'), return value
ValueResume ==
    /\ Running
    /\ Top.kind = "value"
    /\ computeds' = [computeds EXCEPT ![Top.c].value = ret,
                                      ![Top.c].isNeedComputed = FALSE]
    /\ LET s == trackValue(State(Below, effects), activeEffect, Top.c)
       IN  /\ bucket' = s.bucket
           /\ effects' = s.effects
           /\ callStack' = Deliver(Noted(s.stack, Top.c, "value"), ret)
    /\ UNCHANGED <<variant, data, activeEffect, effectStack, watchers, microtasks,
                   ret, thrown, op, pre, trace, history>>

\* the keys of _data a callback handed to watch reads, in order
CbReads(cb) == IF cb = "logAge" THEN <<"age">> ELSE <<>>

\* the reads of _data made one after the other by the code that runs while
\* activeEffect is ae: each goes through the get trap, which calls track
RECURSIVE trackEach(_, _, _)
trackEach(s, ae, ks) ==
    IF ks = <<>> THEN s
    ELSE trackEach(track(s, ae, DataTarget, Head(ks)), ae, Tail(ks))

\* cb(newValue, oldValue), the order the comment on watch gives
cbArgsSwapped(oldValue, newValue) == <<newValue, oldValue>>

\* cb(oldValue, newValue)
cbArgs(oldValue, newValue) == <<oldValue, newValue>>

\* a job that never replaces oldValue
KeepOld(oldValue, newValue) == oldValue

\* oldValue = newValue
StoreOld(oldValue, newValue) == newValue

\* job(): newValue = effectFn() has returned; cb(oldValue, newValue),
\* oldValue = newValue
JobResume ==
    /\ Running
    /\ Top.kind = "job"
    /\ trace' = Append(trace, Event("cb", Top.w,
                                    cbArgs(watchers[Top.w].oldValue, ret)[1],
                                    cbArgs(watchers[Top.w].oldValue, ret)[2]))
    /\ LET s == trackEach(State(Below, effects), activeEffect,
                          CbReads(watchers[Top.w].cb))
       IN  /\ bucket' = s.bucket
           /\ effects' = s.effects
    /\ watchers' = [watchers EXCEPT ![Top.w].newValue = ret,
                                    ![Top.w].oldValue = StoreOld(@, ret)]
    /\ callStack' = Below
    /\ UNCHANGED <<variant, data, activeEffect, effectStack,
                   computeds, microtasks, ret, thrown, op, pre, history>>

\* a watch() that calls effectFn() and keeps nothing of what it returned
WatchResumeDrop ==
    /\ Running
    /\ Top.kind = "watch"
    /\ callStack' = Below
    /\ UNCHANGED <<variant, data, bucket, effects, activeEffect, effectStack,
                   computeds, watchers, microtasks, ret, thrown, op, pre, trace,
                   history>>

\* watch(): oldValue = effectFn() has returned
WatchResume ==
    /\ Running
    /\ Top.kind = "watch"
    /\ watchers' = [watchers EXCEPT ![Top.w].oldValue = ret]
    /\ callStack' = Below
    /\ UNCHANGED <<variant, data, bucket, effects, activeEffect, effectStack,
                   computeds, microtasks, ret, thrown, op, pre, trace, history>>

\* forEach is at a member
InForEach ==
    /\ Running
    /\ Top.kind = "trigger"
    /\ Pending(variant, bucket, Top) # <<>>

Visited == Head(Pending(variant, bucket, Top))
Skipped == SkipsActive(variant) /\ Visited = activeEffect
Moved == Append(Below, Advance(variant, Top))

\* forEach: the member is activeEffect and the file's trigger passes over it
TriggerSkip ==
    /\ InForEach
    /\ Skipped
    /\ callStack' = Moved
    /\ UNCHANGED <<variant, data, bucket, effects, activeEffect, effectStack,
                   computeds, watchers, microtasks, ret, thrown, op, pre, trace,
                   history>>

\* a trigger that looks for no scheduler
NoScheduler(sched) == FALSE

\* if (effectFn.options.scheduler)
HasScheduler(sched) == sched # "none"

\* forEach: the member has no scheduler and is run
TriggerRun ==
    /\ InForEach
    /\ ~Skipped
    /\ ~HasScheduler(effects[Visited].scheduler)
    /\ CallEffectFn(Visited, "trigger", State(Moved, effects), trace)
    /\ UNCHANGED <<variant, data, computeds, watchers, microtasks, ret, thrown,
                   op, pre, history>>

\* a scheduler without the test of isNeedComputed
AlwaysNotify(isNeedComputed) == TRUE

\* if (!isNeedComputed): the computed's scheduler notifies when the value
\* was not yet marked for recomputation
ShouldNotify(isNeedComputed) == ~isNeedComputed

\* forEach: the member is a computed's effectFn and its scheduler is called
TriggerComputed ==
    /\ InForEach
    /\ ~Skipped
    /\ HasScheduler(effects[Visited].scheduler)
    /\ effects[Visited].scheduler = "computed"
    /\ LET c == effects[Visited].owner
           tr == Append(trace, Event("scheduler", Visited, 0, 0))
       IN  IF ShouldNotify(computeds[c].isNeedComputed)
           THEN /\ computeds' = [computeds EXCEPT ![c].isNeedComputed = TRUE]
                /\ CallTrigger(c, "value", Moved, tr)
           ELSE /\ callStack' = Moved
                /\ trace' = tr
                /\ UNCHANGED computeds
    /\ UNCHANGED <<variant, data, bucket, effects, activeEffect, effectStack,
                   watchers, microtasks, ret, thrown, op, pre, history>>

\* a queue that puts the newest job first
EnqueueFront(q, w) == <<w>> \o q

\* Promise.resolve().then(job): the job goes last in the microtask queue
Enqueue(q, w) == Append(q, w)

\* a scheduler that takes no flush for 'post'
NeverPost(flush) == FALSE

\* if (options.flush === 'post')
IsPost(flush) == flush = "post"

\* forEach: the member is a watcher's effectFn and its scheduler is called
TriggerWatch ==
    /\ InForEach
    /\ ~Skipped
    /\ HasScheduler(effects[Visited].scheduler)
    /\ effects[Visited].scheduler = "watch"
    /\ LET w == effects[Visited].owner
           tr == Append(trace, Event("scheduler", Visited, 0, 0))
       IN  IF IsPost(watchers[w].flush)
           THEN /\ microtasks' = Enqueue(microtasks, w)
                /\ callStack' = Moved
                /\ trace' = tr
                /\ UNCHANGED <<bucket, effects, activeEffect, effectStack>>
           ELSE /\ CallJob(w, Visited, Moved, effects, tr)
                /\ UNCHANGED microtasks
    /\ UNCHANGED <<variant, data, computeds, watchers, ret, thrown, op, pre,
                   history>>

\* forEach has visited every member: trigger returns
TriggerReturn ==
    /\ Running
    /\ Top.kind = "trigger"
    /\ Pending(variant, bucket, Top) = <<>>
    /\ callStack' = Below
    /\ UNCHANGED <<variant, data, bucket, effects, activeEffect, effectStack,
                   computeds, watchers, microtasks, ret, thrown, op, pre, trace,
                   history>>

-----------------------------------------------------------------------------
(* traverse(value, seen) over plain objects.  An object is a number of      *)
(* Objects, which stands for its identity; a property holds an object, a    *)
(* primitive or null, or is absent.                                         *)

Objects == 1 .. MaxObjects
Primitive == 0
Null == -2
Absent == -3

\* the names a property can have, in the order for...in enumerates them
Props == <<"a", "b">>
PropNames == {Props[i] : i \in 1 .. Len(Props)}

\* the object graphs: what every property of every object holds
Graphs == [Objects -> [PropNames -> Objects \cup {Primitive, Null, Absent}]]

\* typeof value === 'object' && value !== null
IsObject(v) == v \in Objects

\* a for...in loop that stops after the first property
FirstKeyOnly(g, o) ==
    LET ks == SelectSeq(Props, LAMBDA k : g[o][k] # Absent)
    IN  IF ks = <<>> THEN <<>> ELSE <<Head(ks)>>

\* for (const k in value): the enumerable properties of value, in order
OwnKeys(g, o) == SelectSeq(Props, LAMBDA k : g[o][k] # Absent)

\* a call traverse(value, seen) at its first line.  seen is one Set, made by
\* the outermost call (the default of the parameter) and handed on to every
\* nested call: it is kept in the outermost frame
TraverseFrame(v) ==
    [kind |-> "traverse", value |-> v, pc |-> "guard", keys |-> <<>>, seen |-> {}]

Seen == callStack[1].seen

AtTraverse(pc) == Running /\ Top.kind = "traverse" /\ Top.pc = pc

\* the top-level call traverse(value)
traverse(v) ==
    /\ Begin(Op("traverse", "", v, ""))
    /\ trace' = Started
    /\ callStack' = <<TraverseFrame(v)>>
    /\ UNCHANGED <<variant, data, bucket, effects, activeEffect, effectStack,
                   computeds, watchers, microtasks, ret>>

\* if (typeof value !== 'object' || value === null || seen.has(value)) return
TraverseSkip ==
    /\ AtTraverse("guard")
    /\ ~IsObject(Top.value) \/ Top.value \in Seen
    /\ callStack' = Pop(callStack)
    /\ ret' = Undefined
    /\ UNCHANGED <<variant, data, bucket, effects, activeEffect, effectStack,
                   computeds, watchers, microtasks, thrown, op, pre, trace,
                   history>>

\* seen.add(value), and the for...in loop is entered
TraverseVisit ==
    /\ AtTraverse("guard")
    /\ IsObject(Top.value) /\ Top.value \notin Seen
    /\ callStack' = [callStack EXCEPT
                        ![Len(callStack)].pc = "for",
                        ![Len(callStack)].keys = OwnKeys(data, Top.value),
                        ![1].seen = @ \cup {Top.value}]
    /\ trace' = Log(trace, Event("visit", Top.value, 0, 0))
    /\ UNCHANGED <<variant, data, bucket, effects, activeEffect, effectStack,
                   computeds, watchers, microtasks, ret, thrown, op, pre,
                   history>>

\* one turn of the loop: traverse(value[k], seen)
TraverseNext ==
    /\ AtTraverse("for")
    /\ Top.keys # <<>>
    /\ LET k == Head(Top.keys)
           child == data[Top.value][k]
       IN  /\ trace' = Log(trace, Event("read", Top.value, k, child))
           /\ callStack' =
                 Append([callStack EXCEPT ![Len(callStack)].keys = Tail(@)],
                        TraverseFrame(child))
    /\ UNCHANGED <<variant, data, bucket, effects, activeEffect, effectStack,
                   computeds, watchers, microtasks, ret, thrown, op, pre,
                   history>>

\* the loop is over: return value
TraverseReturn ==
    /\ AtTraverse("for")
    /\ Top.keys = <<>>
    /\ callStack' = Pop(callStack)
    /\ ret' = Top.value
    /\ UNCHANGED <<variant, data, bucket, effects, activeEffect, effectStack,
                   computeds, watchers, microtasks, thrown, op, pre, trace,
                   history>>

-----------------------------------------------------------------------------
(* Specifications *)

\* const data = { showNameFirst, name: 'august', age: 25 }
InitData(v) ==
    [k \in Keys |-> IF k = "name" THEN 0
                    ELSE IF k = "age" THEN 1
                    ELSE IF v = "effect" THEN 0 ELSE 1]

InitIn(vs) ==
    /\ variant \in vs
    /\ data = InitData(variant)
    /\ bucket = [x \in {} |-> EmptyMap]
    /\ effects = <<>>
    /\ activeEffect = NoEffect
    /\ effectStack = <<>>
    /\ computeds = <<>>
    /\ watchers = <<>>
    /\ microtasks = <<>>
    /\ callStack = <<>>
    /\ ret = Undefined
    /\ thrown = FALSE
    /\ op = Op("none", "", 0, "")
    /\ pre = [bucket |-> bucket, data |-> data, activeEffect |-> NoEffect,
              effectStack |-> <<>>, nEffects |-> 0, computeds |-> <<>>,
              watchers |-> <<>>, microtasks |-> <<>>, mark |-> 1]
    /\ trace = <<>>
    /\ history = <<>>

\* no more than n top-level statements
Within(n) == Len(history) < n

\* Plain effects, nested effects, top-level reads and writes
EffectFns == {"logName", "logNameTwice", "logSum", "branch", "outer", "parent"}

Init == InitIn({"watch", "effect"})

Next ==
    \/ \E f \in EffectFns : Within(MaxOps) /\ effect(f)
    \/ \E k \in Keys, v \in Values : Within(MaxOps) /\ set(k, v)
    \/ \E k \in Keys : Within(MaxOps) /\ get(k)
    \/ FnGet
    \/ FnEffect
    \/ FnReturn
    \/ TriggerRun
    \/ TriggerReturn

Spec == Init /\ [][Next]_vars

\* Effects whose fn may throw
ThrowFns == {"mayThrow", "logName"}

InitThrow == InitIn({"watch", "effect"})

NextThrow ==
    \/ \E f \in ThrowFns : Within(MaxThrowOps) /\ effect(f)
    \/ \E k \in {"name", "age"}, v \in Values : Within(MaxThrowOps) /\ set(k, v)
    \/ \E k \in {"name", "age"} : Within(MaxThrowOps) /\ get(k)
    \/ FnGet
    \/ FnThrow
    \/ FnReturn
    \/ TriggerSkip
    \/ TriggerRun
    \/ TriggerReturn

SpecThrow == InitThrow /\ [][NextThrow]_vars

\* One computed, effects that read it, top-level reads of it and, once it
\* exists, top-level writes of the keys its getter reads
InitComputed == InitIn({"watch", "effect"})

NextComputed ==
    \/ Within(MaxComputedOps) /\ computeds = <<>> /\ computed("logSum")
    \/ \E c \in 1 .. Len(computeds) : Within(MaxComputedOps) /\ value(c)
    \/ Within(MaxComputedOps) /\ effect("logComputed")
    \/ \E k \in {"name", "age"}, v \in Values :
          Within(MaxComputedOps) /\ computeds # <<>> /\ set(k, v)
    \/ FnGet
    \/ FnValue
    \/ FnReturn
    \/ ValueResume
    \/ TriggerRun
    \/ TriggerComputed
    \/ TriggerReturn

SpecComputed == InitComputed /\ [][NextComputed]_vars

\* Watchers of a getter, top-level writes, the microtasks
InitWatch == InitIn({"watch"})

NextWatch ==
    \/ \E i \in BOOLEAN, fl \in {"sync", "post"} :
          Within(MaxWatchOps) /\ watch("getName", "logChange", i, fl)
    \/ \E k \in {"name", "age"}, v \in Values : Within(MaxWatchOps) /\ set(k, v)
    \/ RunMicrotask
    \/ FnGet
    \/ FnReturn
    \/ JobResume
    \/ WatchResume
    \/ TriggerWatch
    \/ TriggerReturn

SpecWatch == InitWatch /\ [][NextWatch]_vars

\* Effects whose fn writes what an effect reads, top-level writes
WriteFns == {"flip", "relay", "reset"}

InitWrites == InitIn({"watch", "effect"})

NextWrites ==
    \/ \E f \in WriteFns : Within(MaxWriteOps) /\ effect(f)
    \/ \E k \in Keys, v \in Values : Within(MaxWriteOps) /\ set(k, v)
    \/ FnGet
    \/ FnSet
    \/ FnReturn
    \/ TriggerSkip
    \/ TriggerRun
    \/ TriggerReturn

SpecWrites == InitWrites /\ [][NextWrites]_vars

\* The files whose trigger passes over activeEffect: one effect whose fn
\* reads and writes age, effects that only read, top-level writes
GuardFns == {"bump", "logName"}

InitGuard == InitIn({"effect", "live"})

NextGuard ==
    \/ \E f \in GuardFns :
          /\ Within(MaxGuardOps)
          /\ f = "bump" => \A e \in 1 .. Len(effects) : effects[e].fn # "bump"
          /\ effect(f)
    \/ \E k \in {"name", "age"}, v \in Values : Within(MaxGuardOps) /\ set(k, v)
    \/ FnGet
    \/ FnSet
    \/ FnReturn
    \/ TriggerSkip
    \/ TriggerRun
    \/ TriggerReturn

SpecGuard == InitGuard /\ [][NextGuard]_vars

\* Every trigger: effects whose fn only reads, top-level writes.  A step is
\* taken whenever one can be: the program does not stop by itself.
LiveFns == {"logName", "logSum"}

InitLive == InitIn({"watch", "effect", "live"})

NextLive ==
    \/ \E f \in LiveFns : Within(MaxLiveOps) /\ effect(f)
    \/ \E k \in {"name", "age"}, v \in Values : Within(MaxLiveOps) /\ set(k, v)
    \/ FnGet
    \/ FnReturn
    \/ TriggerRun
    \/ TriggerReturn

SpecLive == InitLive /\ [][NextLive]_vars /\ WF_vars(NextLive)

\* Effects with options: lazy ones and their runners, the schedulers of
\* computed and watch next to effects without one
InitOptions == InitIn({"watch"})

NextOptions ==
    \/ \E lazy \in BOOLEAN : Within(MaxOptionOps) /\ effectOptions("getName", lazy)
    \/ \E e \in 1 .. Len(effects) : Within(MaxOptionOps) /\ run(e)
    \/ Within(MaxOptionOps) /\ computed("logSum")
    \/ \E c \in 1 .. Len(computeds) : Within(MaxOptionOps) /\ value(c)
    \/ \E fl \in {"sync", "post"} : Within(MaxOptionOps) /\ watch("getName", "logChange", FALSE, fl)
    \/ \E v \in Values : Within(MaxOptionOps) /\ set("name", v)
    \/ RunMicrotask
    \/ FnGet
    \/ FnReturn
    \/ ValueResume
    \/ JobResume
    \/ WatchResume
    \/ TriggerRun
    \/ TriggerComputed
    \/ TriggerWatch
    \/ TriggerReturn

SpecOptions == InitOptions /\ [][NextOptions]_vars

\* One computed and the effects that read it, one of them after a read of a
\* key its getter reads
FreshFns == {"logComputed", "logNameAndComputed"}

InitFresh == InitIn({"watch", "effect"})

NextFresh ==
    \/ Within(MaxFreshOps) /\ computeds = <<>> /\ computed("logSum")
    \/ \E c \in 1 .. Len(computeds) : Within(MaxFreshOps) /\ value(c)
    \/ \E f \in FreshFns : Within(MaxFreshOps) /\ effect(f)
    \/ \E k \in {"name", "age"}, v \in Values :
          Within(MaxFreshOps) /\ computeds # <<>> /\ set(k, v)
    \/ FnGet
    \/ FnValue
    \/ FnReturn
    \/ ValueResume
    \/ TriggerRun
    \/ TriggerComputed
    \/ TriggerReturn

SpecFresh == InitFresh /\ [][NextFresh]_vars

\* Watchers whose callback reads _data, an effect whose fn writes the watched
\* key, top-level writes, the microtasks
CallbackFns == {"logChange", "logAge"}

InitCallback == InitIn({"watch"})

NextCallback ==
    \/ \E cb \in CallbackFns, i \in BOOLEAN, fl \in {"sync", "post"} :
          Within(MaxCallbackOps) /\ watch("getName", cb, i, fl)
    \/ Within(MaxCallbackOps) /\ effect("setName")
    \/ \E k \in {"name", "age"}, v \in Values : Within(MaxCallbackOps) /\ set(k, v)
    \/ RunMicrotask
    \/ FnGet
    \/ FnSet
    \/ FnReturn
    \/ JobResume
    \/ WatchResume
    \/ TriggerRun
    \/ TriggerWatch
    \/ TriggerReturn

SpecCallback == InitCallback /\ [][NextCallback]_vars

\* traverse alone: data is any graph of plain objects, with cycles and with
\* objects reached along two paths among them, and traverse is called once,
\* on object 1, on a primitive or on null.  A step is taken whenever one can
\* be.
InitTraverse ==
    /\ variant = "watch"
    /\ data \in Graphs
    /\ bucket = [x \in {} |-> EmptyMap]
    /\ effects = <<>>
    /\ activeEffect = NoEffect
    /\ effectStack = <<>>
    /\ computeds = <<>>
    /\ watchers = <<>>
    /\ microtasks = <<>>
    /\ callStack = <<>>
    /\ ret = Undefined
    /\ thrown = FALSE
    /\ op = Op("none", "", 0, "")
    /\ pre = [bucket |-> bucket, data |-> data, activeEffect |-> NoEffect,
              effectStack |-> <<>>, nEffects |-> 0, computeds |-> <<>>,
              watchers |-> <<>>, microtasks |-> <<>>, mark |-> 1]
    /\ trace = <<>>
    /\ history = <<>>

NextTraverse ==
    \/ \E v \in {1, Primitive, Null} : history = <<>> /\ traverse(v)
    \/ TraverseSkip
    \/ TraverseVisit
    \/ TraverseNext
    \/ TraverseReturn

SpecTraverse == InitTraverse /\ [][NextTraverse]_vars /\ WF_vars(NextTraverse)

-----------------------------------------------------------------------------
(* What the statements below are about *)

Done == ~Running

\* what has run since the statement (or microtask) under execution started
CurTrace == SubSeq(trace, pre.mark, Len(trace))

\* how many times fn of effectFn e was called since the statement started
Runs(e) ==
    Cardinality({i \in 1 .. Len(CurTrace) :
                    CurTrace[i][1] = "run" /\ CurTrace[i][2] = e})

\* the effectFns trigger's forEach has called since the statement started
TriggeredRuns ==
    LET sel == SelectSeq(CurTrace, LAMBDA ev : ev[1] = "run" /\ ev[3] = "trigger")
    IN  [i \in 1 .. Len(sel) |-> sel[i][2]]

IsPrefix(s, t) == Len(s) <= Len(t) /\ s = SubSeq(t, 1, Len(s))

\* fn reads _data[k] on every run
AlwaysReads(f, k) ==
    \E i \in 1 .. Len(Body(f)) : Body(f)[i].op \in {"get", "add"} /\ Body(f)[i].key = k

Registered == 1 .. Len(effects)
Before == 1 .. pre.nEffects

SubscribersOf(k) == DepsOf(bucket, DataTarget, k)

-----------------------------------------------------------------------------
(* C1.  Re-run exactness: once a top-level write _data.name = x has         *)
(* returned, every effect registered before it whose fn reads name on each  *)
(* run has had its fn called exactly once by that write, also when x is the *)
(* value name already had.                                                  *)
C1_RerunExactlyOnce ==
    (Done /\ op.name = "set" /\ op.key = "name") =>
        \A e \in Before : AlwaysReads(effects[e].fn, "name") => Runs(e) = 1

C1_Witness ==
    /\ Done /\ op.name = "set" /\ op.key = "name"
    /\ op.val = pre.data["name"]
    /\ \E e \in Before : effects[e].fn = "logNameTwice" /\ Runs(e) = 1
    /\ \E e \in Before : effects[e].fn = "logSum" /\ Runs(e) = 1

(* C2.  Branch pruning: for an effect showNameFirst ? name : age, a         *)
(* top-level write made while showNameFirst is false calls fn not at all if *)
(* it writes name and exactly once if it writes age.                        *)
C2_BranchPruning ==
    (Done /\ op.name = "set" /\ ~Truthy(pre.data["showNameFirst"])) =>
        \A e \in Before : effects[e].fn = "branch" =>
            /\ op.key = "name" => Runs(e) = 0
            /\ op.key = "age" => Runs(e) = 1

C2_Witness ==
    /\ Done
    /\ variant = "watch"
    /\ Len(history) = 3
    /\ history[1] = Op("effect", "", 0, "branch")
    /\ history[2] = Op("set", "showNameFirst", 0, "")
    /\ history[3].name = "set" /\ history[3].key = "name"
    /\ Runs(1) = 0
    /\ ~InSeq(SubscribersOf("name"), 1)
    /\ InSeq(SubscribersOf("age"), 1)

(* C3.  Nesting: for an outer effect that reads name, registers an inner    *)
(* effect reading age and then reads showNameFirst, the Set of              *)
(* showNameFirst never holds an inner effect, holds the outer one whenever  *)
(* no call is pending, and a top-level write of showNameFirst calls the     *)
(* outer fn once and the fn of no inner effect registered before.           *)
C3_NestingAttribution ==
    /\ \A e \in Registered :
          effects[e].fn = "inner" => ~InSeq(SubscribersOf("showNameFirst"), e)
    /\ Done =>
          \A e \in Registered :
              effects[e].fn = "outer" => InSeq(SubscribersOf("showNameFirst"), e)
    /\ (Done /\ op.name = "set" /\ op.key = "showNameFirst") =>
          \A e \in Before :
              /\ effects[e].fn = "outer" => Runs(e) = 1
              /\ effects[e].fn = "inner" => Runs(e) = 0

C3_Witness ==
    /\ Done /\ op.name = "set" /\ op.key = "showNameFirst"
    /\ \E e \in Before : effects[e].fn = "outer" /\ Runs(e) = 1
    /\ \E e \in Before : effects[e].fn = "inner" /\ Runs(e) = 0
    /\ \E e \in Registered \ Before : effects[e].fn = "inner" /\ Runs(e) = 1

(* C5.  Snapshot before iterate: the effectFns the trigger of a top-level   *)
(* write has called so far are a prefix of the Set of the key as it was     *)
(* when the write started, and the whole of it once the write has returned: *)
(* each member once, and none that joined the Set during the call.          *)
C5_SnapshotNotifiedOnce ==
    op.name = "set" =>
        /\ IsPrefix(TriggeredRuns, DepsOf(pre.bucket, DataTarget, op.key))
        /\ Done => TriggeredRuns = DepsOf(pre.bucket, DataTarget, op.key)

C5_Witness ==
    /\ Done /\ op.name = "set"
    /\ Len(TriggeredRuns) >= 2
    /\ SubscribersOf(op.key) # DepsOf(pre.bucket, DataTarget, op.key)
    /\ \E e \in Registered \ Before :
          InSeq(SubscribersOf(op.key), e) /\ ~InSeq(TriggeredRuns, e)

(* C6.  Track/trigger pairing: a top-level read made while activeEffect is  *)
(* undefined leaves the bucket as it was, and a top-level write of a key    *)
(* that has no Set in the bucket calls nothing and leaves the bucket as it  *)
(* was.                                                                     *)
C6_TrackTriggerPairing ==
    /\ (op.name = "get" /\ pre.activeEffect = NoEffect) =>
          bucket = pre.bucket
    /\ (op.name = "set" /\ ~HasDeps(pre.bucket, DataTarget, op.key)) =>
          Done /\ TriggeredRuns = <<>> /\ Len(CurTrace) = 2 /\ bucket = pre.bucket

C6_Witness ==
    /\ Len(history) = 3
    /\ history[1].name = "effect"
    /\ history[2].name = "get" /\ history[2].key = op.key
    /\ op.name = "set" /\ ~HasDeps(pre.bucket, DataTarget, op.key)
    /\ pre.activeEffect = NoEffect
    /\ Done /\ Len(CurTrace) = 2 /\ bucket = pre.bucket

-----------------------------------------------------------------------------
(* Exceptions, computed and watch *)

(* C4.  Exception unwinding: once an exception thrown by a fn has left the  *)
(* top-level statement, effectStack and activeEffect are what they were     *)
(* when the statement started.                                              *)
C4_UnwoundAfterThrow ==
    (Done /\ thrown) =>
        effectStack = pre.effectStack /\ activeEffect = pre.activeEffect

\* the getter name + age on the data as they are
GetterResult == data["name"] + data["age"]

IsRead(i, c) == trace[i] = Event("value", c, 0, 0)
IsWrite(i) ==
    /\ trace[i][1] = "trigger"
    /\ trace[i][2] = DataTarget
    /\ trace[i][3] \in {"name", "age"}
IsNotify(i, c) == trace[i] = Event("trigger", c, "value", 0)
IsEval(i, c) == trace[i][1] = "run" /\ trace[i][2] = computeds[c].effectFn

Computeds == 1 .. Len(computeds)
Trace == 1 .. Len(trace)

\* computed c was read before the statement under execution started, and
\* neither name nor age was written since
ReadAndUnwritten(c) ==
    \E i \in 1 .. pre.mark - 1 :
        /\ IsRead(i, c)
        /\ \A j \in i + 1 .. pre.mark - 1 : ~IsWrite(j)

(* C7.  Computed laziness and caching: the getter runs only as the first    *)
(* thing a read of .value does, never at computed() nor by a trigger; a     *)
(* top-level read of a value that needs computing runs it once and returns  *)
(* name + age; a top-level read that follows a read, with no write of name  *)
(* or age in between, does not run it and returns the cached name + age.    *)
C7_ComputedLazyCached ==
    /\ \A i \in Trace, c \in Computeds :
          IsEval(i, c) => trace[i][3] = "value" /\ i > 1 /\ IsRead(i - 1, c)
    /\ op.name = "computed" => Done /\ Len(CurTrace) = 1
    /\ (Done /\ op.name = "value" /\ pre.computeds[op.val].isNeedComputed) =>
          Runs(computeds[op.val].effectFn) = 1 /\ ret = GetterResult
    /\ (Done /\ op.name = "value" /\ ReadAndUnwritten(op.val)) =>
          /\ Runs(computeds[op.val].effectFn) = 0
          /\ ret = pre.computeds[op.val].value
          /\ ret = GetterResult

C7_Witness ==
    /\ Done /\ op.name = "value" /\ ReadAndUnwritten(op.val)
    /\ Len(history) >= 4
    /\ history[Len(history) - 1].name = "set"
    /\ history[Len(history) - 2] = op
    /\ Runs(computeds[op.val].effectFn) = 0
    /\ ret = GetterResult
    /\ \E i \in Trace : IsEval(i, op.val)

\* i and j are two reads of computed c with no read of it in between and at
\* least one write of name or age in between
StaleBetween(i, j, c) ==
    /\ i < j
    /\ IsRead(i, c) /\ IsRead(j, c)
    /\ \A k \in i + 1 .. j - 1 : ~IsRead(k, c)
    /\ \E k \in i + 1 .. j - 1 : IsWrite(k)

FirstWrite(i, j) == CHOOSE k \in i + 1 .. j - 1 : IsWrite(k) /\ \A m \in i + 1 .. k - 1 : ~IsWrite(m)

\* the last entry of trace before the next read of c after j
UpToNextRead(j, c) ==
    IF \E k \in j + 1 .. Len(trace) : IsRead(k, c)
    THEN (CHOOSE k \in j + 1 .. Len(trace) :
              IsRead(k, c) /\ \A m \in j + 1 .. k - 1 : ~IsRead(m, c)) - 1
    ELSE Len(trace)

(* C8.  Invalidation coalescing: between two reads of .value with writes of *)
(* name or age and no read in between, the getter does not run on the       *)
(* writes and runs exactly once on the second read, and the computed's      *)
(* scheduler calls trigger(obj, 'value') exactly once, on the first write.  *)
C8_InvalidationCoalesced ==
    \A c \in Computeds, i \in Trace, j \in Trace :
        StaleBetween(i, j, c) =>
            /\ \A k \in FirstWrite(i, j) .. j : ~IsEval(k, c)
            /\ {k \in j .. UpToNextRead(j, c) : IsEval(k, c)} = {j + 1}
            /\ Cardinality({k \in i .. j : IsNotify(k, c)}) = 1
            /\ \E k \in i .. j :
                  /\ IsNotify(k, c)
                  /\ FirstWrite(i, j) < k
                  /\ \A m \in FirstWrite(i, j) + 1 .. j : IsWrite(m) => k < m

C8_Witness ==
    /\ Done /\ op.name = "value"
    /\ \E i \in Trace, j \in Trace :
          /\ StaleBetween(i, j, op.val)
          /\ j >= pre.mark
          /\ Cardinality({k \in i .. j : IsWrite(k)}) >= 2
          /\ Cardinality({k \in i .. j : IsNotify(k, op.val)}) = 1
    /\ Runs(computeds[op.val].effectFn) = 1

\* the values fn of effectFn e has returned since the statement started
Returned(e) ==
    LET sel == SelectSeq(CurTrace, LAMBDA ev : ev[1] = "return" /\ ev[2] = e)
    IN  [i \in 1 .. Len(sel) |-> sel[i][3]]

Callbacks == SelectSeq(CurTrace, LAMBDA ev : ev[1] = "cb")

Queued(q, w) == Cardinality({i \in 1 .. Len(q) : q[i] = w})

Watchers == 1 .. Len(watchers)

\* watcher w existed when the statement started and its getter is subscribed
\* to name
Watching(w) ==
    w \in 1 .. Len(pre.watchers) /\ InSeq(SubscribersOf("name"), watchers[w].effectFn)

(* C11.  Watch flush 'post': a top-level write of name calls the cb of no    *)
(* watcher with flush 'post' before it returns, and when it has returned    *)
(* exactly one more job of each such watcher waits as a microtask; a        *)
(* microtask, which runs only when no call is pending, calls the cb of its  *)
(* watcher exactly once.                                                    *)
C11_WatchFlushPost ==
    /\ op.name = "set" =>
          \A i \in 1 .. Len(Callbacks) : watchers[Callbacks[i][2]].flush # "post"
    /\ (Done /\ op.name = "set" /\ op.key = "name") =>
          \A w \in Watchers :
              (Watching(w) /\ watchers[w].flush = "post") =>
                  Queued(microtasks, w) = Queued(pre.microtasks, w) + 1
    /\ op.name = "microtask" =>
          /\ pre.effectStack = <<>>
          /\ Len(Callbacks) <= 1
          /\ Done => /\ Len(Callbacks) = 1
                     /\ Callbacks[1][2] = op.val
                     /\ Queued(microtasks, op.val) = Queued(pre.microtasks, op.val) - 1

C11_Witness ==
    /\ Done /\ op.name = "microtask"
    /\ Len(history) = 3
    /\ history[1] = Op("watch", "post", 0, "getName")
    /\ history[2].name = "set" /\ history[2].key = "name"
    /\ history[3].name = "set" /\ history[3].key = "name"
    /\ microtasks = <<1>>
    /\ Callbacks = <<Event("cb", 1, 0, data["name"])>>

\* how many times the scheduler of effectFn e was called since the statement
\* started
Scheduled(e) ==
    Cardinality({i \in 1 .. Len(CurTrace) :
                    CurTrace[i][1] = "scheduler" /\ CurTrace[i][2] = e})

\* how many times trigger itself called effectFn e since the statement started
RunsByTrigger(e) ==
    Cardinality({i \in 1 .. Len(CurTrace) :
                    CurTrace[i] = Event("run", e, "trigger", 0)})

(* C12.  Scheduler dispatch: trigger never calls an effectFn that carries a  *)
(* scheduler, whose fn runs only from get value(), job() or watch(); once a *)
(* top-level write has returned, each member of the key's Set with a        *)
(* scheduler has had its scheduler called exactly once with itself as       *)
(* argument, and each member without one was called once by trigger and has *)
(* had no scheduler called.                                                 *)
C12_SchedulerDispatch ==
    /\ \A i \in Trace :
          (trace[i][1] = "run" /\ effects[trace[i][2]].scheduler # "none") =>
              trace[i][3] \in {"value", "job", "watch"}
    /\ \A i \in Trace :
          trace[i][1] = "scheduler" => effects[trace[i][2]].scheduler # "none"
    /\ (Done /\ op.name = "set") =>
          \A e \in Before :
              InSeq(DepsOf(pre.bucket, DataTarget, op.key), e) =>
                  IF effects[e].scheduler # "none"
                  THEN Scheduled(e) = 1 /\ RunsByTrigger(e) = 0
                  ELSE Scheduled(e) = 0 /\ RunsByTrigger(e) = 1

C12_Witness ==
    /\ Done /\ op.name = "set"
    /\ \E e \in Before :
          /\ effects[e].scheduler = "watch"
          /\ Scheduled(e) = 1 /\ RunsByTrigger(e) = 0 /\ Runs(e) = 1
    /\ \E e \in Before :
          /\ effects[e].scheduler = "none"
          /\ Scheduled(e) = 0 /\ RunsByTrigger(e) = 1

\* effectFn e has been called at some time
EverRun(e) == \E i \in Trace : trace[i][1] = "run" /\ trace[i][2] = e

\* effectFn e is a member of some subscriber Set
Subscribed(e) ==
    \E t \in DOMAIN bucket : \E k \in DOMAIN bucket[t] : InSeq(bucket[t][k], e)

(* C13.  Lazy registration: effect(fn, { lazy: true }) returns with fn not   *)
(* called, and until the effectFn it returned is called, that effectFn is   *)
(* in no Set and its deps are empty; effect(fn) without lazy has called fn  *)
(* exactly once when it returns; a call of the returned effectFn calls fn   *)
(* once and returns what fn returned, here _data.name.                      *)
C13_LazyRegistration ==
    /\ (op.name = "effect" /\ op.val = 1) =>
          Done /\ Len(CurTrace) = 1 /\ bucket = pre.bucket
    /\ \A e \in Registered :
          (effects[e].lazy /\ ~EverRun(e)) =>
              ~Subscribed(e) /\ effects[e].deps = <<>>
    /\ (Done /\ op.name = "effect" /\ op.val = 0) =>
          /\ Runs(Len(effects)) = 1
          /\ CurTrace[2] = Event("run", Len(effects), "effect", 0)
          /\ Subscribed(Len(effects))
    /\ (Done /\ op.name = "run") =>
          /\ Runs(op.val) = 1
          /\ Returned(op.val) = <<data["name"]>>
          /\ ret = data["name"]
          /\ Subscribed(op.val)

C13_Witness ==
    /\ Done
    /\ Len(history) = 3
    /\ history[1] = Op("effect", "", 1, "getName")
    /\ history[2] = Op("set", "name", 1, "")
    /\ history[3] = Op("run", "", 1, "")
    /\ \A i \in 1 .. pre.mark - 1 : trace[i][1] # "run"
    /\ ~HasDeps(pre.bucket, DataTarget, "name")
    /\ Runs(1) = 1 /\ ret = 1
    /\ SubscribersOf("name") = <<1>>

\* entry i of trace is a call of the cb of watcher w
IsCallback(i, w) == trace[i][1] = "cb" /\ trace[i][2] = w

\* entry i of trace is watch() calling the effectFn of watcher w
IsStartup(i, w) == trace[i] = Event("run", watchers[w].effectFn, "watch", 0)

\* entry i of trace is a write of name, the one key the getter reads
IsWatchedWrite(i) == trace[i] = Event("trigger", DataTarget, "name", 0)

Idle(e) == \A i \in 1 .. Len(callStack) : callStack[i].kind = "fn" => callStack[i].e # e

\* the (target, key) pairs whose Set holds effectFn e
SubscribedTo(e) ==
    {<<t, k>> \in UNION {{t} \X DOMAIN bucket[t] : t \in DOMAIN bucket} :
        InSeq(bucket[t][k], e)}

\* the runs of fn of effectFn e that have returned, as entries of trace
Completed(e) == {i \in Trace : trace[i][1] = "return" /\ trace[i][2] = e}

\* the (target, key) pairs fn of effectFn e read in the last run that returned
LastReads(e) ==
    trace[CHOOSE i \in Completed(e) : \A j \in Completed(e) : j <= i][4]

(* C15.  Dependency exactness: whenever no call of the fn of an effectFn is  *)
(* pending and a run of it has returned, the (target, key) pairs whose Set  *)
(* holds the effectFn are exactly the pairs fn read in the last run that    *)
(* returned.                                                                *)
C15_DependencyExactness ==
    \A e \in Registered :
        (Idle(e) /\ Completed(e) # {}) => SubscribedTo(e) = LastReads(e)

\* the effectFns whose fn is being executed, outermost first
RunningEffects ==
    LET fns == SelectSeq(callStack, LAMBDA fr : fr.kind = "fn")
    IN  [i \in 1 .. Len(fns) |-> fns[i].e]

\* the effectFn whose fn is being executed innermost, if any
Innermost ==
    IF RunningEffects = <<>> THEN NoEffect ELSE RunningEffects[Len(RunningEffects)]

(* C16.  Active-effect scope: whenever a fn is being executed, activeEffect  *)
(* is its effectFn and the last entry of effectStack; whenever a call is    *)
(* pending, activeEffect is the effectFn whose fn is being executed         *)
(* innermost (so it is the one beneath again when a run has returned);      *)
(* and when a top-level statement has returned without an exception,        *)
(* effectStack is empty and activeEffect undefined.                         *)
C16_ActiveEffectScope ==
    /\ (Running /\ Top.kind = "fn") =>
          /\ activeEffect = Top.e
          /\ effectStack # <<>>
          /\ effectStack[Len(effectStack)] = Top.e
    /\ Running => activeEffect = Innermost
    /\ (Done /\ ~thrown) => effectStack = <<>> /\ activeEffect = NoEffect

\* the (target, key) pairs of the Sets in effectFn.deps
OwnedBy(e) == {effects[e].deps[i] : i \in 1 .. Len(effects[e].deps)}

(* C17.  Bidirectional link: in every state an effectFn is a member of the   *)
(* Set of (target, key) if and only if that Set is in effectFn.deps; and    *)
(* when effectFn has called cleanup and is about to call fn, it is in no    *)
(* Set and its deps are empty.                                              *)
C17_BidirectionalLink ==
    /\ \A e \in Registered : SubscribedTo(e) = OwnedBy(e)
    /\ (Running /\ Top.kind = "fn" /\ Top.pc = 1) =>
          SubscribedTo(Top.e) = {} /\ effects[Top.e].deps = <<>>

C17_Witness ==
    /\ Running /\ Top.kind = "fn" /\ Top.pc = 1
    /\ Top.e \in Before
    /\ Cardinality({k \in Keys : InSeq(DepsOf(pre.bucket, DataTarget, k), Top.e)}) >= 2
    /\ SubscribedTo(Top.e) = {} /\ effects[Top.e].deps = <<>>
    /\ \E e \in Registered : Cardinality(SubscribedTo(e)) >= 2

\* the calls of the cb of watcher w so far, in order
CallbacksOf(w) == SelectSeq(trace, LAMBDA ev : ev[1] = "cb" /\ ev[2] = w)

\* what the getter returned when watch() called the effectFn of watcher w
AtStartup(w) ==
    trace[(CHOOSE r \in Trace : IsStartup(r, w)) + 1][3]

C19_SelfTriggerGuard ==
    /\ (op.name = "effect" /\ op.fn = "bump") =>
          /\ Runs(Len(effects)) <= 1
          /\ Done => Runs(Len(effects)) = 1
    /\ (op.name = "set" /\ op.key = "age") =>
          \A e \in Before :
              effects[e].fn = "bump" =>
                  /\ Runs(e) <= 1
                  /\ Done => Runs(e) = 1

(* C20.  Trigger termination: in every file, a top-level write of a key     *)
(* read by effects without scheduler whose fn writes nothing returns.       *)
C20_TriggerTerminates == (op.name = "set" /\ Running) ~> Done

\* the watchers whose job a scheduler has handed to the microtask queue, in
\* the order of the calls of the schedulers, within a part of trace
EnqueuedIn(tr) ==
    LET sel == SelectSeq(tr, LAMBDA ev :
                   /\ ev[1] = "scheduler"
                   /\ effects[ev[2]].scheduler = "watch"
                   /\ watchers[effects[ev[2]].owner].flush = "post")
    IN  [i \in 1 .. Len(sel) |-> effects[sel[i][2]].owner]

\* the watchers whose deferred job has started, in the order they started
Ran ==
    LET sel == SelectSeq(trace, LAMBDA ev : ev[1] = "microtask")
    IN  [i \in 1 .. Len(sel) |-> sel[i][2]]

(* C21.  Deferred job ordering: the deferred jobs that have started,        *)
(* followed by those still waiting, are the jobs in the order the           *)
(* schedulers handed them over, whichever watcher they belong to; and while *)
(* a top-level write is running, the jobs it has handed over are all still  *)
(* waiting, as the last entries of the queue.                               *)
C21_DeferredJobOrder ==
    /\ Ran \o microtasks = EnqueuedIn(trace)
    /\ op.name = "set" =>
          /\ Len(EnqueuedIn(CurTrace)) <= Len(microtasks)
          /\ SubSeq(microtasks, Len(microtasks) - Len(EnqueuedIn(CurTrace)) + 1,
                    Len(microtasks)) = EnqueuedIn(CurTrace)
    /\ op.name = "microtask" => EnqueuedIn(CurTrace) = <<>>

C21_Witness ==
    /\ Done /\ microtasks = <<>>
    /\ Len(history) = 4
    /\ history[3].name = "set" /\ history[4].name = "set"
    /\ Ran = <<1, 2, 1, 2>>
    /\ EnqueuedIn(trace) = <<1, 2, 1, 2>>

\* the objects traverse has entered, in order
Visits ==
    LET sel == SelectSeq(trace, LAMBDA ev : ev[1] = "visit")
    IN  [i \in 1 .. Len(sel) |-> sel[i][2]]

\* the properties traverse has read of object o, in order
ReadsOf(o) ==
    LET sel == SelectSeq(trace, LAMBDA ev : ev[1] = "read" /\ ev[2] = o)
    IN  [i \in 1 .. Len(sel) |-> sel[i][3]]

\* the objects one reaches from the objects of S in at most n steps
RECURSIVE ReachedIn(_, _)
ReachedIn(S, n) ==
    IF n = 0 THEN S
    ELSE ReachedIn(S \cup ({data[o][k] : o \in S, k \in PropNames} \cap Objects), n - 1)

Reachable(v) == IF v \in Objects THEN ReachedIn({v}, MaxObjects) ELSE {}

\* object o is reached along two paths, or lies on a cycle
Shared(o) ==
    Cardinality({<<p, k>> \in Objects \X PropNames : data[p][k] = o}) >= 2
OnCycle(o) == o \in ReachedIn({data[o][k] : k \in PropNames} \cap Objects, MaxObjects)

(* C22.  Deep traversal: traverse enters no object twice and only objects   *)
(* reachable from its argument; once it has returned, it has entered every  *)
(* reachable object and read every enumerable property of each, once; and   *)
(* every call of traverse returns, whatever the graph.                      *)
C22_TraverseTerminates ==
    /\ [](op.name = "traverse" =>
            /\ \A i, j \in 1 .. Len(Visits) : Visits[i] = Visits[j] => i = j
            /\ \A i \in 1 .. Len(Visits) : Visits[i] \in Reachable(op.val)
            /\ Done =>
                  /\ {Visits[i] : i \in 1 .. Len(Visits)} = Reachable(op.val)
                  /\ \A o \in Reachable(op.val) :
                        ReadsOf(o) = SelectSeq(Props, LAMBDA k : data[o][k] # Absent)
                  /\ ret = IF op.val \in Objects THEN op.val ELSE Undefined)
    /\ (op.name = "traverse" /\ Running) ~> Done

C22_Witness ==
    /\ op.name = "traverse" /\ Done
    /\ Visits = <<1, 2>>
    /\ Shared(2) /\ OnCycle(1) /\ OnCycle(2)
    /\ ReadsOf(1) = <<"a", "b">>
    /\ ReadsOf(2) = <<"a">>

\* the pending calls of a business function that have just read .value, the
\* value read being in acc
JustReadValue ==
    {i \in 1 .. Len(callStack) :
        /\ callStack[i].kind = "fn"
        /\ callStack[i].pc > 1
        /\ Body(effects[callStack[i].e].fn)[callStack[i].pc - 1].op = "value"}

\* between two statements the cache of every computed that does not need
\* computing is the getter's result on data as it is
FreshAtRest ==
    Done => \A c \in Computeds :
                ~computeds[c].isNeedComputed => computeds[c].value = GetterResult

(* C23.  Computed freshness: every read of .value, at top level or by an    *)
(* effect, returns name + age on the values name and age have when it is    *)
(* made, and between statements a computed that does not need computing     *)
(* holds name + age.                                                        *)
C23_ComputedFreshness ==
    /\ (Done /\ op.name = "value") => ret = GetterResult
    /\ \A i \in JustReadValue : callStack[i].acc = GetterResult
    /\ FreshAtRest

\* the same, for the reads made at top level only
C23_FreshAtTopLevel ==
    /\ (Done /\ op.name = "value") => ret = GetterResult
    /\ FreshAtRest

(* C24.  No re-entry under the guard: in the files whose trigger passes     *)
(* over activeEffect, effectStack never holds the same effectFn twice, and  *)
(* no effectFn is called while a call of it is pending, whatever the        *)
(* effects write.                                                           *)
C24_NoReentryUnderGuard ==
    variant \in {"effect", "live"} =>
        /\ \A i, j \in 1 .. Len(effectStack) :
              effectStack[i] = effectStack[j] => i = j
        /\ \A i, j \in 1 .. Len(callStack) :
              (/\ callStack[i].kind = "fn" /\ callStack[j].kind = "fn"
               /\ callStack[i].e = callStack[j].e) => i = j

\* the call of cb is the next thing to happen
AtCallback == Running /\ Top.kind = "job"

(* C25.  Callback reads are untracked: the call of a watch callback leaves  *)
(* every subscriber Set and the deps of every effectFn as they were,        *)
(* whatever the callback reads and wherever the write that led to it was    *)
(* made.                                                                    *)
C25_CallbackUntracked ==
    [][AtCallback => bucket' = bucket /\ effects' = effects]_vars

\* the same, for the callbacks called with no effectFn running
C25_UntrackedOutsideEffects ==
    [][(AtCallback /\ activeEffect = NoEffect) =>
          bucket' = bucket /\ effects' = effects]_vars

\* the program is effect(outer) followed by top-level writes and reads only
OuterOnly ==
    /\ history # <<>>
    /\ history[1].name = "effect" /\ history[1].fn = "outer"
    /\ \A i \in 2 .. Len(history) : history[i].name # "effect"

\* how many times the fn of an inner effect was called since the statement
\* started
InnerRuns ==
    Cardinality({i \in 1 .. Len(CurTrace) :
                    /\ CurTrace[i][1] = "run"
                    /\ effects[CurTrace[i][2]].fn = "inner"})

\* how many times the outer effect was re-run, by a write of what it reads
OuterReruns ==
    Cardinality({i \in 2 .. Len(history) :
                    /\ history[i].name = "set"
                    /\ history[i].key \in {"name", "showNameFirst"}})

(* C26.  No subscriber accumulation under nesting: for one outer effect     *)
(* that reads name and registers an inner effect reading age, between       *)
(* statements age has one subscriber however often the outer effect was     *)
(* re-run, and a top-level write of age calls the inner fn exactly once.    *)
C26_NoAccumulation ==
    (OuterOnly /\ Done) =>
        /\ Len(SubscribersOf("age")) = 1
        /\ (op.name = "set" /\ op.key = "age") => InnerRuns = 1

\* the same, before the outer effect has been re-run
C26_BeforeRerun ==
    (OuterOnly /\ Done /\ OuterReruns = 0) =>
        /\ Len(SubscribersOf("age")) = 1
        /\ (op.name = "set" /\ op.key = "age") => InnerRuns = 1

====
